---- MODULE Spec2Model ----
(***************************************************************************)
(* Model of the coin ledger (UserService / User), the game rooms           *)
(* (GameService), the Russian-roulette engine (RussianRouletteEngine) and  *)
(* the achievement hook (AchievementService) of astrbot_plugin_dzgm.       *)
(*                                                                         *)
(* The stored state is the content of the SQLite tables: users, game_rooms,*)
(* game_records and user_achievements.  Every service call is one action   *)
(* that runs the whole handler; `result` holds the dict the call returned, *)
(* together with the arguments it was called with and the calls it made to *)
(* the achievement hook.                                                   *)
(*                                                                         *)
(* Not modelled: timestamps (created_at, joined_at, started_at,            *)
(* finished_at), channel_id, level/experience, the check_in_records table  *)
(* (written by check_in, read only by the statistics) and the message      *)
(* texts.                                                                  *)
(***************************************************************************)
EXTENDS Integers, Sequences, FiniteSets, TLC

VARIABLES users, rooms, free_ids, game_records, user_achievements, result

vars == <<users, rooms, free_ids, game_records, user_achievements, result>>

----------------------------------------------------------------------------
(* Bounds of the model. *)

\* cap on a seat's shots_fired counter
MaxShots == 4

\* the larger of the two bets a caller may place inside the engine's range
HighBet == 500

\* cap on total_earned in the ledger specification
MaxEarned == 1000

\* the number of days after which a last check-in is no longer told apart
MaxGap == 2

\* cap on the check-ins made in the check-in specification
MaxCheckIns == 7

----------------------------------------------------------------------------
(* Program constants. *)

InitialCoins == 1000
MinPlayers == 2
MaxPlayers == 6
MinBet == 100
MaxBet == 10000
ChamberCount == 6
BulletsCount == 1
MinShots == 1
MaxShotsPerTurn == 3
RecordLimit == 50

RouletteType == "russian_roulette"

\* the registered engines: GameService.game_engines after register_game_engine
game_engines == {RouletteType}

\* sender ids; "xy" contains "x" as a substring
UserIds == {"x", "xy", "z"}

\* the characters of an id or a name
Chars(s) ==
    CASE s = "x"  -> <<"x">>
      [] s = "xy" -> <<"x", "y">>
      [] s = "z"  -> <<"z">>
      [] s = "p"  -> <<"p">>
      [] s = "q"  -> <<"q">>
      [] s = "w"  -> <<"w">>
      [] s \in {"b", "c", "g", "k"} -> <<s>>
      [] OTHER    -> <<>>

\* the ids and names the model uses
Names == {"x", "xy", "z", "p", "q", "w", "b", "c", "g", "k"}

\* the display name the host reports for a sender
SenderName(u) ==
    CASE u = "x"  -> "p"
      [] u = "xy" -> "q"
      [] OTHER    -> "w"

BetChoices == {MinBet - 1, HighBet, MaxBet + 1}

ShotChoices == 0..(MaxShotsPerTurn + 1)

\* the amounts a caller may pass to the ledger operations
Amounts == {0, HighBet, InitialCoins + HighBet}

\* the users the ledger specification moves coins between
LedgerUsers == {"x", "z"}

----------------------------------------------------------------------------
(* Small helpers. *)

Range(s) == {s[i] : i \in 1..Len(s)}

\* the function f extended or overwritten at k
Put(f, k, v) == [x \in (DOMAIN f) \cup {k} |-> IF x = k THEN v ELSE f[x]]

Remove(f, k) == [x \in (DOMAIN f) \ {k} |-> f[x]]

----------------------------------------------------------------------------
(* User and UserService. *)

NewUser(user_id, username) ==
    [user_id |-> user_id, username |-> username, coins |-> InitialCoins,
     total_earned |-> 0, total_spent |-> 0, check_in_count |-> 0,
     last_check_in |-> <<>>, total_check_ins |-> 0, title |-> "novice"]

\* User.add_coins that forgets the running total
UserAddCoinsUntracked(user, amount) == [user EXCEPT !.coins = @ + amount]

\* User.add_coins
UserAddCoins(user, amount) ==
    [user EXCEPT !.coins = @ + amount, !.total_earned = @ + amount]

\* User.spend_coins without the balance test
UserCanSpendAny(user, amount) == TRUE

\* User.spend_coins: the test
UserCanSpend(user, amount) == user.coins >= amount

\* a debit of twice the amount
UserSpendCoinsTwice(user, amount) ==
    [user EXCEPT !.coins = @ - 2 * amount, !.total_spent = @ + 2 * amount]

\* User.spend_coins: the mutation when the test passes
UserSpendCoins(user, amount) ==
    IF UserCanSpend(user, amount)
    THEN [user EXCEPT !.coins = @ - amount, !.total_spent = @ + amount]
    ELSE user

\* UserService.get_or_create_user: the users table afterwards
GetOrCreateUser(us, user_id, username) ==
    IF user_id \notin DOMAIN us
    THEN Put(us, user_id, NewUser(user_id, username))
    ELSE IF us[user_id].username # username
         THEN [us EXCEPT ![user_id].username = username]
         ELSE us

\* UserService.add_coins: the users table afterwards
AddCoins(us, user_id, amount) ==
    IF user_id \in DOMAIN us
    THEN [us EXCEPT ![user_id] = UserAddCoins(@, amount)]
    ELSE us

\* UserService.spend_coins: the value returned
SpendCoinsOk(us, user_id, amount) ==
    user_id \in DOMAIN us /\ UserCanSpend(us[user_id], amount)

\* UserService.spend_coins that never saves the row
SpendCoinsUnsaved(us, user_id, amount) == us

\* UserService.spend_coins: the users table afterwards
SpendCoins(us, user_id, amount) ==
    IF SpendCoinsOk(us, user_id, amount)
    THEN [us EXCEPT ![user_id] = UserSpendCoins(@, amount)]
    ELSE us

\* UserService.set_title: the users table afterwards
SetTitle(us, user_id, title) ==
    IF user_id \in DOMAIN us
    THEN [us EXCEPT ![user_id].title = title]
    ELSE us

\* UserService.transfer_coins: the value returned
TransferOk(us, from_user_id, to_user_id, amount) ==
    /\ from_user_id \in DOMAIN us
    /\ to_user_id \in DOMAIN us
    /\ UserCanSpend(us[from_user_id], amount)

\* UserService.transfer_coins: both rows are read first, each copy is changed,
\* then from_user's row is written and to_user's row is written over it
TransferCoins(us, from_user_id, to_user_id, amount) ==
    IF TransferOk(us, from_user_id, to_user_id, amount)
    THEN LET from_user == UserSpendCoins(us[from_user_id], amount)
             to_user   == UserAddCoins(us[to_user_id], amount)
             saved     == [us EXCEPT ![from_user_id] = from_user]
         IN  [saved EXCEPT ![to_user_id] = to_user]
    ELSE us

----------------------------------------------------------------------------
(* SqliteGameRepository: rooms are stored with their players as JSON text. *)

\* JSON text is a sequence of tokens: the punctuation, one token "k_<name>"
\* for a key with its colon, the characters of a string between quotes, the
\* digits of a number, true and false.

\* json.dumps of a str
DumpsStr(s) == <<"\"">> \o Chars(s) \o <<"\"">>

\* json.dumps of an int that is not negative: its decimal digits
RECURSIVE DumpsInt(_)
DumpsInt(n) ==
    IF n < 10 THEN <<ToString(n)>>
    ELSE DumpsInt(n \div 10) \o <<ToString(n % 10)>>

\* a bool written as true whatever it is
DumpsBoolTrue(b) == <<"true">>

\* json.dumps of a bool
DumpsBool(b) == IF b THEN <<"true">> ELSE <<"false">>

\* json.dumps of one seat, its keys in insertion order; joined_at is a
\* time, written as the token "t"
SeatJson(p) ==
    <<"{", "k_user_id">> \o DumpsStr(p.user_id) \o <<",", "k_username">>
        \o DumpsStr(p.username) \o <<",", "k_joined_at", "t">>
        \o (IF "is_alive" \in DOMAIN p
            THEN <<",", "k_is_alive">> \o DumpsBool(p.is_alive)
                     \o <<",", "k_shots_fired">> \o DumpsInt(p.shots_fired)
            ELSE <<>>)
        \o <<"}">>

\* the seats players[i..] separated by commas
RECURSIVE SeatsJson(_, _)
SeatsJson(players, i) ==
    IF i > Len(players) THEN <<>>
    ELSE (IF i > 1 THEN <<",">> ELSE <<>>) \o SeatJson(players[i])
             \o SeatsJson(players, i + 1)

\* json.dumps(room.players)
PlayersJson(players) == <<"[">> \o SeatsJson(players, 1) \o <<"]">>

\* json.dumps(room.game_data), its keys in insertion order
GameDataJson(game_data) ==
    <<"{", "k_bullet_position">> \o DumpsInt(game_data.bullet_position)
        \o <<",", "k_current_position">> \o DumpsInt(game_data.current_position)
        \o <<",", "k_current_player_index">>
        \o DumpsInt(game_data.current_player_index)
        \o <<",", "k_chamber_count">> \o DumpsInt(game_data.chamber_count)
        \o <<",", "k_bullets_count">> \o DumpsInt(game_data.bullets_count)
        \o <<"}">>

\* json.dumps(room.settings): no call gives settings a key
SettingsJson(settings) == <<"{", "}">>

\* the key a key token stands for
KeyName(token) ==
    CASE token = "k_user_id" -> "user_id"
      [] token = "k_username" -> "username"
      [] token = "k_is_alive" -> "is_alive"
      [] token = "k_shots_fired" -> "shots_fired"
      [] token = "k_bullet_position" -> "bullet_position"
      [] token = "k_current_position" -> "current_position"
      [] token = "k_current_player_index" -> "current_player_index"
      [] token = "k_chamber_count" -> "chamber_count"
      [] token = "k_bullets_count" -> "bullets_count"

IsDigit(token) == \E d \in 0..9 : ToString(d) = token

DigitValue(token) == CHOOSE d \in 0..9 : ToString(d) = token

\* json.loads at a number: the value of the digits and the text left
RECURSIVE LoadsInt(_, _)
LoadsInt(text, value) ==
    IF text # <<>> /\ IsDigit(Head(text))
    THEN LoadsInt(Tail(text), 10 * value + DigitValue(Head(text)))
    ELSE [value |-> value, rest |-> text]

\* json.loads at a string: the str between the quotes and the text left
LoadsStr(text) ==
    LET close == CHOOSE j \in 2..Len(text) :
                    /\ text[j] = "\""
                    /\ \A k \in 2..(j - 1) : text[k] # "\""
    IN  [value |-> CHOOSE s \in Names : Chars(s) = SubSeq(text, 2, close - 1),
         rest |-> SubSeq(text, close + 1, Len(text))]

\* json.loads at a value
LoadsValue(text) ==
    CASE Head(text) = "\""    -> LoadsStr(text)
      [] Head(text) = "true"  -> [value |-> TRUE, rest |-> Tail(text)]
      [] Head(text) = "false" -> [value |-> FALSE, rest |-> Tail(text)]
      [] OTHER                -> LoadsInt(text, 0)

\* json.loads inside an object: the dict read so far is members; the time
\* joined_at is passed over
RECURSIVE LoadsMembers(_, _)
LoadsMembers(text, members) ==
    IF Head(text) = "}" THEN [value |-> members, rest |-> Tail(text)]
    ELSE IF Head(text) = "," THEN LoadsMembers(Tail(text), members)
    ELSE IF Head(text) = "k_joined_at"
    THEN LoadsMembers(SubSeq(text, 3, Len(text)), members)
    ELSE LET v == LoadsValue(Tail(text))
         IN  LoadsMembers(v.rest, Put(members, KeyName(Head(text)), v.value))

\* json.loads of a dict
LoadsDict(text) == LoadsMembers(Tail(text), <<>>).value

\* json.loads inside a list of dicts: the list read so far is items
RECURSIVE LoadsItems(_, _)
LoadsItems(text, items) ==
    IF Head(text) = "]" THEN items
    ELSE IF Head(text) = "," THEN LoadsItems(Tail(text), items)
    ELSE LET v == LoadsMembers(Tail(text), <<>>)
         IN  LoadsItems(v.rest, Append(items, v.value))

\* json.loads of a list of dicts
LoadsList(text) == LoadsItems(Tail(text), <<>>)

\* the columns create_room inserts and update_room leaves or rewrites
RoomRow(room) ==
    [id |-> room.id, game_type |-> room.game_type,
     creator_id |-> room.creator_id, bet_amount |-> room.bet_amount,
     status |-> room.status, max_players |-> room.max_players,
     min_players |-> room.min_players,
     players |-> PlayersJson(room.players),
     game_data |-> GameDataJson(room.game_data),
     settings |-> SettingsJson(room.settings)]

\* SqliteGameRepository._row_to_game_room
RowToGameRoom(row) ==
    [id |-> row.id, game_type |-> row.game_type,
     creator_id |-> row.creator_id, bet_amount |-> row.bet_amount,
     status |-> row.status, max_players |-> row.max_players,
     min_players |-> row.min_players,
     players |-> IF row.players # <<>> THEN LoadsList(row.players) ELSE <<>>,
     game_data |-> IF row.game_data # <<>> THEN LoadsDict(row.game_data)
                   ELSE <<>>,
     settings |-> IF row.settings # <<>> THEN LoadsDict(row.settings)
                  ELSE <<>>]

\* SQL: text LIKE '%pattern%'
Like(text, pattern) ==
    \E i \in 0..(Len(text) - Len(pattern)) :
        SubSeq(text, i + 1, i + Len(pattern)) = pattern

\* SqliteGameRepository.get_user_rooms: the ids of the rooms selected
GetUserRooms(rs, user_id, status) ==
    {r \in DOMAIN rs :
        /\ \/ rs[r].creator_id = user_id
           \/ Like(PlayersJson(rs[r].players), Chars(user_id))
        /\ rs[r].status = status}

\* SqliteGameRepository.get_user_game_records: the newest `limit` records of
\* the user for the game type (game_records is kept oldest first)
GetUserGameRecords(recs, user_id, game_type, limit) ==
    LET mine == SelectSeq(recs, LAMBDA g :
                    g.user_id = user_id /\ g.game_type = game_type)
    IN  IF Len(mine) <= limit THEN mine
        ELSE SubSeq(mine, Len(mine) - limit + 1, Len(mine))

----------------------------------------------------------------------------
(* RussianRouletteEngine. *)

\* RussianRouletteEngine.initialize_game_data
InitializeGameData ==
    [bullet_position |-> 0, current_position |-> 1, current_player_index |-> 0,
     chamber_count |-> ChamberCount, bullets_count |-> BulletsCount]

\* a start check that any room passes
CanStartGameAlways(room) == TRUE

\* RussianRouletteEngine.can_start_game
CanStartGame(room) == Len(room.players) >= MinPlayers

\* a start that loads no bullet: bullet_position stays as initialised
StartGameNoBullet(room, bullet, perm) ==
    [room EXCEPT
        !.players = [i \in 1..Len(room.players) |->
                        [user_id |-> room.players[perm[i]].user_id,
                         username |-> room.players[perm[i]].username,
                         is_alive |-> TRUE,
                         shots_fired |-> 0]]]

\* RussianRouletteEngine.start_game; bullet is random.randint(1, chamber_count)
\* and perm the permutation random.shuffle applies to the seats
StartGame(room, bullet, perm) ==
    [room EXCEPT
        !.game_data = [@ EXCEPT !.bullet_position = bullet,
                                !.current_position = 1,
                                !.current_player_index = 0],
        !.players = [i \in 1..Len(room.players) |->
                        [user_id |-> room.players[perm[i]].user_id,
                         username |-> room.players[perm[i]].username,
                         is_alive |-> TRUE,
                         shots_fired |-> 0]]]

\* one miss that moves the chamber on without wrapping
AdvanceChamberNoWrap(position, chamber_count) == position + 1

\* one miss: the chamber advances and wraps from chamber_count to 1
AdvanceChamber(position, chamber_count) ==
    IF position + 1 > chamber_count THEN 1 ELSE position + 1

\* the loop `for i in range(shots)` of process_action: the chamber position
\* when the loop ends, whether the actor was hit, and the misses taken
RECURSIVE Pulls(_, _, _, _, _)
Pulls(position, bullet, chamber_count, shots, misses) ==
    IF shots = 0
    THEN [position |-> position, is_dead |-> FALSE, misses |-> misses]
    ELSE IF position = bullet
         THEN [position |-> position, is_dead |-> TRUE, misses |-> misses]
         ELSE Pulls(AdvanceChamber(position, chamber_count), bullet,
                    chamber_count, shots - 1, misses + 1)

AlivePlayers(players) == SelectSeq(players, LAMBDA p : p.is_alive)

\* a turn that passes to the next seat, alive or not
NextPlayerAdjacent(players, index, attempts) == (index + 1) % Len(players)

\* RussianRouletteEngine._next_player: the index after the loop
RECURSIVE NextPlayer(_, _, _)
NextPlayer(players, index, attempts) ==
    IF attempts < Len(players)
    THEN LET next == (index + 1) % Len(players)
         IN  IF players[next + 1].is_alive THEN next
             ELSE NextPlayer(players, next, attempts + 1)
    ELSE index

\* a turn check that lets any caller act for the current player
IsCurrentPlayerAnyone(room, user_id) == TRUE

\* process_action's turn check: the caller is the current player
IsCurrentPlayer(room, user_id) ==
    room.players[room.game_data.current_player_index + 1].user_id = user_id

\* RussianRouletteEngine.process_action: the dict returned and the room as the
\* call leaves it
ProcessAction(room, user_id, action, shots) ==
    LET gd      == room.game_data
        seat    == gd.current_player_index + 1
        current == room.players[seat]
        failure == [success |-> FALSE, game_continues |-> FALSE, room |-> room]
    IN
    IF action # "shoot" THEN failure
    ELSE IF ~IsCurrentPlayer(room, user_id) THEN failure
    ELSE IF shots < MinShots \/ shots > MaxShotsPerTurn THEN failure
    ELSE
        LET fired   == Pulls(gd.current_position, gd.bullet_position,
                             gd.chamber_count, shots, 0)
            players == [room.players EXCEPT
                          ![seat] = [@ EXCEPT
                              !.is_alive = IF fired.is_dead THEN FALSE ELSE @,
                              !.shots_fired = @ + shots]]
            shot    == [room EXCEPT
                          !.players = players,
                          !.game_data = [@ EXCEPT
                              !.current_position = fired.position]]
        IN
        IF fired.is_dead \/ Len(AlivePlayers(players)) <= 1
        THEN [success |-> TRUE, game_continues |-> FALSE, room |-> shot]
        ELSE [success |-> TRUE, game_continues |-> TRUE,
              room |-> [shot EXCEPT
                  !.game_data = [@ EXCEPT !.current_player_index =
                      NextPlayer(players, gd.current_player_index, 0)]]]

\* a room that is never finished
IsGameFinishedNever(room) == FALSE

\* a room finished as soon as two players are left
IsGameFinishedEarly(room) == Len(AlivePlayers(room.players)) <= 2

\* RussianRouletteEngine.is_game_finished
IsGameFinished(room) == Len(AlivePlayers(room.players)) <= 1

\* RussianRouletteEngine.get_game_result: result['winners']
Winners(room) ==
    LET alive == AlivePlayers(room.players)
    IN  [i \in 1..Len(alive) |-> alive[i].user_id]

----------------------------------------------------------------------------
(* AchievementService, as GameService calls it at settlement. *)

\* AchievementService._get_default_achievements without the level
\* achievements, in the order get_all() returns them (by category, then id)
Achievements ==
    << [id |-> "roulette_first_win", category |-> "game",
        condition_type |-> "roulette_win", condition_value |-> 1,
        reward_coins |-> 100, reward_title |-> ""],
       [id |-> "roulette_survivor", category |-> "game",
        condition_type |-> "roulette_survive", condition_value |-> 100,
        reward_coins |-> 2000, reward_title |-> "survivor"],
       [id |-> "roulette_win_10", category |-> "game",
        condition_type |-> "roulette_win", condition_value |-> 10,
        reward_coins |-> 500, reward_title |-> "lucky"],
       [id |-> "check_in_100", category |-> "check_in",
        condition_type |-> "consecutive_days", condition_value |-> 100,
        reward_coins |-> 8000, reward_title |-> "unremitting"],
       [id |-> "check_in_30", category |-> "check_in",
        condition_type |-> "consecutive_days", condition_value |-> 30,
        reward_coins |-> 1500, reward_title |-> "faithful"],
       [id |-> "check_in_365", category |-> "check_in",
        condition_type |-> "consecutive_days", condition_value |-> 365,
        reward_coins |-> 50000, reward_title |-> "checkin_master"],
       [id |-> "check_in_7", category |-> "check_in",
        condition_type |-> "consecutive_days", condition_value |-> 7,
        reward_coins |-> 300, reward_title |-> "punctual"],
       [id |-> "total_check_in_200", category |-> "check_in",
        condition_type |-> "total_check_ins", condition_value |-> 200,
        reward_coins |-> 5000, reward_title |-> ""],
       [id |-> "total_check_in_50", category |-> "check_in",
        condition_type |-> "total_check_ins", condition_value |-> 50,
        reward_coins |-> 1000, reward_title |-> ""],
       [id |-> "earn_hundred_thousand", category |-> "coins",
        condition_type |-> "total_earned", condition_value |-> 100000,
        reward_coins |-> 5000, reward_title |-> ""],
       [id |-> "earn_thousand", category |-> "coins",
        condition_type |-> "total_earned", condition_value |-> 1000,
        reward_coins |-> 100, reward_title |-> ""],
       [id |-> "first_hundred", category |-> "coins",
        condition_type |-> "current_coins", condition_value |-> 100,
        reward_coins |-> 50, reward_title |-> "comfortable"],
       [id |-> "first_ten_thousand", category |-> "coins",
        condition_type |-> "current_coins", condition_value |-> 10000,
        reward_coins |-> 1000, reward_title |-> "tycoon"],
       [id |-> "first_thousand", category |-> "coins",
        condition_type |-> "current_coins", condition_value |-> 1000,
        reward_coins |-> 200, reward_title |-> "wealthy"],
       [id |-> "millionaire", category |-> "coins",
        condition_type |-> "current_coins", condition_value |-> 1000000,
        reward_coins |-> 50000, reward_title |-> "millionaire"],
       [id |-> "single_gain_1000", category |-> "coins",
        condition_type |-> "single_gain", condition_value |-> 1000,
        reward_coins |-> 500, reward_title |-> ""] >>

\* the records of the user for russian_roulette with the given result
ResultRecords(recs, user_id, outcome) ==
    SelectSeq(GetUserGameRecords(recs, user_id, RouletteType, RecordLimit),
              LAMBDA g : g.result = outcome)

\* AchievementService._check_achievement_condition; value is the trigger
\* payload: an integer for the coins and check_in triggers, and for the game
\* trigger the dict whose type is game_type + "_" + outcome, given here as
\* its two parts
CheckAchievementCondition(user, achievement, trigger_type, value, recs) ==
    IF achievement.category = "coins" /\ trigger_type = "coins"
    THEN CASE achievement.condition_type = "total_earned" ->
                user.total_earned >= achievement.condition_value
           [] achievement.condition_type = "current_coins" ->
                user.coins >= achievement.condition_value
           [] achievement.condition_type = "single_gain" ->
                value >= achievement.condition_value
           [] OTHER -> FALSE
    ELSE IF achievement.category = "check_in" /\ trigger_type = "check_in"
    THEN CASE achievement.condition_type = "consecutive_days" ->
                user.check_in_count >= achievement.condition_value
           [] achievement.condition_type = "total_check_ins" ->
                user.total_check_ins >= achievement.condition_value
           [] OTHER -> FALSE
    ELSE IF achievement.category = "game" /\ trigger_type = "game"
    THEN IF /\ achievement.condition_type = "roulette_win"
            /\ value.game_type = RouletteType /\ value.outcome = "win"
         THEN Len(ResultRecords(recs, user.user_id, "win"))
                  >= achievement.condition_value
         ELSE IF /\ achievement.condition_type = "roulette_survive"
                 /\ value.game_type = RouletteType /\ value.outcome = "lose"
         THEN Len(ResultRecords(recs, user.user_id, "lose"))
                  >= achievement.condition_value
         ELSE FALSE
    ELSE FALSE

\* AchievementService._award_achievement on the tables st
AwardAchievement(st, user_id, achievement) ==
    LET rewarded == IF achievement.reward_coins > 0
                    THEN AddCoins(st.users, user_id, achievement.reward_coins)
                    ELSE st.users
        titled   == IF achievement.reward_title # ""
                    THEN SetTitle(rewarded, user_id, achievement.reward_title)
                    ELSE rewarded
    IN  [st EXCEPT
            !.user_achievements = @ \cup {<<user_id, achievement.id>>},
            !.users = titled]

\* a has_achievement that finds nothing
HasAchievementNever(awarded, user_id, achievement_id) == FALSE

\* SqliteUserAchievementRepository.has_achievement
HasAchievement(awarded, user_id, achievement_id) ==
    <<user_id, achievement_id>> \in awarded

\* the loop of check_and_award_achievements over achievements[i..]
RECURSIVE AwardLoop(_, _, _, _, _, _)
AwardLoop(st, user, user_id, trigger_type, value, i) ==
    IF i > Len(Achievements) THEN st
    ELSE LET a == Achievements[i]
         IN  IF HasAchievement(st.user_achievements, user_id, a.id)
             THEN AwardLoop(st, user, user_id, trigger_type, value, i + 1)
             ELSE IF CheckAchievementCondition(user, a, trigger_type, value,
                                               st.game_records)
             THEN AwardLoop(AwardAchievement(st, user_id, a), user, user_id,
                            trigger_type, value, i + 1)
             ELSE AwardLoop(st, user, user_id, trigger_type, value, i + 1)

\* AchievementService.check_and_award_achievements on the tables st; the
\* call is noted in st.hook_calls with its arguments
CheckAndAwardAchievements(st, user_id, trigger_type, value) ==
    LET called == [st EXCEPT !.hook_calls =
                      Append(@, [user_id |-> user_id,
                                 trigger_type |-> trigger_type,
                                 value |-> value])]
    IN  IF user_id \notin DOMAIN st.users THEN called
        ELSE AwardLoop(called, st.users[user_id], user_id, trigger_type,
                       value, 1)

----------------------------------------------------------------------------
(* GameService._finish_game. *)

\* a pot of one bet, whatever the number of seats
TotalPotOneBet(room) == room.bet_amount

TotalPot(room) == room.bet_amount * Len(room.players)

\* a prize of the whole pot for each winner
PrizeWholePot(room) == TotalPot(room)

\* prize_per_winner = total_pot // len(winners)
PrizePerWinner(room) == TotalPot(room) \div Len(Winners(room))

\* the loop `for winner_id in winners` over winners[i..]
RECURSIVE CreditWinners(_, _, _, _)
CreditWinners(us, winners, prize, i) ==
    IF i > Len(winners) THEN us
    ELSE CreditWinners(AddCoins(us, winners[i], prize), winners, prize, i + 1)

\* a GameRecord that tags every seat a loser
GameRecordOfLoser(room, player, winners) ==
    [user_id |-> player.user_id, game_type |-> room.game_type,
     coins_bet |-> room.bet_amount, coins_won |-> 0, result |-> "lose",
     room_id |-> room.id, total_players |-> Len(room.players)]

\* the GameRecord built for one seat
GameRecordOf(room, player, winners) ==
    LET is_winner == player.user_id \in Range(winners)
    IN  [user_id |-> player.user_id,
         game_type |-> room.game_type,
         coins_bet |-> room.bet_amount,
         coins_won |-> IF is_winner THEN PrizePerWinner(room) ELSE 0,
         result |-> IF is_winner THEN "win" ELSE "lose",
         room_id |-> room.id,
         total_players |-> Len(room.players)]

\* a payload that reports a win for every seat
AchievementDataWin(room, is_winner) ==
    [game_type |-> room.game_type, outcome |-> "win"]

\* achievement_data, the payload handed to the hook for one seat: its type is
\* game_type + "_" + ("win" or "lose"), kept here as its two parts
AchievementData(room, is_winner) ==
    [game_type |-> room.game_type,
     outcome |-> IF is_winner THEN "win" ELSE "lose"]

\* the loop `for player in room.players` over players[i..]: the record is
\* inserted, then the achievement hook runs for the seat
RECURSIVE RecordPlayers(_, _, _, _)
RecordPlayers(st, room, winners, i) ==
    IF i > Len(room.players) THEN st
    ELSE LET player   == room.players[i]
             record   == GameRecordOf(room, player, winners)
             recorded == [st EXCEPT !.game_records = Append(@, record)]
             hooked   == CheckAndAwardAchievements(recorded, player.user_id,
                             "game",
                             AchievementData(room,
                                 player.user_id \in Range(winners)))
         IN  RecordPlayers(hooked, room, winners, i + 1)

\* GameService._finish_game: the tables afterwards, the room written last
FinishGame(st, room) ==
    LET finished == [room EXCEPT !.status = "finished"]
        winners  == Winners(finished)
        credited == IF winners # <<>>
                    THEN [st EXCEPT !.users =
                            CreditWinners(@, winners, PrizePerWinner(finished), 1)]
                    ELSE st
        recorded == RecordPlayers(credited, finished, winners, 1)
    IN  [recorded EXCEPT !.rooms = Put(@, finished.id, finished)]

----------------------------------------------------------------------------
(* GameService: one action per call. *)

\* the room ids a caller may name: the stored rooms and one id that is not stored
RoomIds == (DOMAIN rooms) \cup {0}

\* the tables a call starts from, and the calls it has made to the
\* achievement hook so far: none
Tables ==
    [users |-> users, rooms |-> rooms, game_records |-> game_records,
     user_achievements |-> user_achievements, hook_calls |-> <<>>]

\* the dict a successful call returns, with the call it answers
Success(op, room_id, user_id) ==
    [op |-> op, success |-> TRUE, message |-> "ok", room_id |-> room_id,
     user_id |-> user_id, amount |-> 0, to_user_id |-> "",
     hook_calls |-> <<>>]

\* the dict a failing call returns: success False and the message
Failure(op, message) ==
    [op |-> op, success |-> FALSE, message |-> message, room_id |-> 0,
     user_id |-> "", amount |-> 0, to_user_id |-> "", hook_calls |-> <<>>]

\* the room GameService.create_room builds
NewRoom(room_id, game_type, creator_id, creator_name, bet_amount) ==
    [id |-> room_id, game_type |-> game_type, creator_id |-> creator_id,
     bet_amount |-> bet_amount, status |-> "waiting",
     max_players |-> MaxPlayers, min_players |-> MinPlayers,
     players |-> <<[user_id |-> creator_id, username |-> creator_name]>>,
     game_data |-> InitializeGameData,
     settings |-> <<>>]

\* an active-room check that forgets the rooms already playing
UserActiveRoomsWaiting(rs, user_id) == GetUserRooms(rs, user_id, "waiting")

\* create_room's check for an active room of the caller
UserActiveRooms(rs, user_id) ==
    GetUserRooms(rs, user_id, "waiting") \cup GetUserRooms(rs, user_id, "playing")

\* GameService.create_room
CreateRoom(game_type, creator_id, bet_amount) ==
    LET creator_name == SenderName(creator_id)
        known        == GetOrCreateUser(users, creator_id, creator_name)
    IN
    IF game_type \notin game_engines
    THEN /\ result' = Failure("create_room", "unknown_game_type")
         /\ UNCHANGED <<users, rooms, free_ids, game_records, user_achievements>>
    ELSE IF bet_amount < MinBet
    THEN /\ result' = Failure("create_room", "bet_below_min")
         /\ UNCHANGED <<users, rooms, free_ids, game_records, user_achievements>>
    ELSE IF bet_amount > MaxBet
    THEN /\ result' = Failure("create_room", "bet_above_max")
         /\ UNCHANGED <<users, rooms, free_ids, game_records, user_achievements>>
    ELSE IF known[creator_id].coins < bet_amount
    THEN /\ users' = known
         /\ result' = Failure("create_room", "insufficient_coins")
         /\ UNCHANGED <<rooms, free_ids, game_records, user_achievements>>
    ELSE IF UserActiveRooms(rooms, creator_id) # {}
    THEN /\ users' = known
         /\ result' = Failure("create_room", "already_in_room")
         /\ UNCHANGED <<rooms, free_ids, game_records, user_achievements>>
    ELSE \E room_id \in free_ids :
         /\ \A other \in free_ids : room_id <= other
         /\ users' = SpendCoins(known, creator_id, bet_amount)
         /\ rooms' = Put(rooms, room_id,
                NewRoom(room_id, game_type, creator_id, creator_name, bet_amount))
         /\ free_ids' = free_ids \ {room_id}
         /\ result' = Success("create_room", room_id, creator_id)
         /\ UNCHANGED <<game_records, user_achievements>>

\* a seat check that knows the creator only
AlreadyJoinedAsCreator(room, user_id) == room.creator_id = user_id

\* join_room's loop over room.players: the user has a seat
AlreadyJoined(room, user_id) ==
    \E i \in 1..Len(room.players) : room.players[i].user_id = user_id

\* a seat limit that is never reached
RoomFullNever(room) == FALSE

\* join_room's seat limit: the room takes no further player
RoomFull(room) == Len(room.players) >= room.max_players

\* GameService.join_room
JoinRoom(room_id, user_id) ==
    LET username == SenderName(user_id)
        known    == GetOrCreateUser(users, user_id, username)
    IN
    IF room_id \notin DOMAIN rooms
    THEN /\ result' = Failure("join_room", "room_not_found")
         /\ UNCHANGED <<users, rooms, free_ids, game_records, user_achievements>>
    ELSE IF rooms[room_id].game_type \notin game_engines
    THEN /\ result' = Failure("join_room", "engine_unavailable")
         /\ UNCHANGED <<users, rooms, free_ids, game_records, user_achievements>>
    ELSE IF rooms[room_id].status # "waiting"
    THEN /\ result' = Failure("join_room", "not_waiting")
         /\ UNCHANGED <<users, rooms, free_ids, game_records, user_achievements>>
    ELSE IF AlreadyJoined(rooms[room_id], user_id)
    THEN /\ result' = Failure("join_room", "already_joined")
         /\ UNCHANGED <<users, rooms, free_ids, game_records, user_achievements>>
    ELSE IF RoomFull(rooms[room_id])
    THEN /\ result' = Failure("join_room", "room_full")
         /\ UNCHANGED <<users, rooms, free_ids, game_records, user_achievements>>
    ELSE IF known[user_id].coins < rooms[room_id].bet_amount
    THEN /\ users' = known
         /\ result' = Failure("join_room", "insufficient_coins")
         /\ UNCHANGED <<rooms, free_ids, game_records, user_achievements>>
    ELSE /\ users' = SpendCoins(known, user_id, rooms[room_id].bet_amount)
         /\ rooms' = [rooms EXCEPT ![room_id].players =
                Append(@, [user_id |-> user_id, username |-> username])]
         /\ result' = Success("join_room", room_id, user_id)
         /\ UNCHANGED <<free_ids, game_records, user_achievements>>

\* a status check that lets any room start
StartRefusedNever(status) == FALSE

\* start_room's status check: the call is refused
StartRefused(status) == status # "waiting"

\* GameService.start_room
StartRoom(room_id, user_id) ==
    IF room_id \notin DOMAIN rooms
    THEN /\ result' = Failure("start_room", "room_not_found")
         /\ UNCHANGED <<users, rooms, free_ids, game_records, user_achievements>>
    ELSE IF rooms[room_id].game_type \notin game_engines
    THEN /\ result' = Failure("start_room", "engine_unavailable")
         /\ UNCHANGED <<users, rooms, free_ids, game_records, user_achievements>>
    ELSE IF rooms[room_id].creator_id # user_id
    THEN /\ result' = Failure("start_room", "not_creator")
         /\ UNCHANGED <<users, rooms, free_ids, game_records, user_achievements>>
    ELSE IF StartRefused(rooms[room_id].status)
    THEN /\ result' = Failure("start_room", "not_waiting")
         /\ UNCHANGED <<users, rooms, free_ids, game_records, user_achievements>>
    ELSE IF ~CanStartGame(rooms[room_id])
    THEN /\ result' = Failure("start_room", "not_enough_players")
         /\ UNCHANGED <<users, rooms, free_ids, game_records, user_achievements>>
    ELSE \E bullet \in 1..rooms[room_id].game_data.chamber_count,
            perm \in Permutations(1..Len(rooms[room_id].players)) :
         /\ rooms' = [rooms EXCEPT ![room_id] =
                StartGame([@ EXCEPT !.status = "playing"], bullet, perm)]
         /\ result' = Success("start_room", room_id, user_id)
         /\ UNCHANGED <<users, free_ids, game_records, user_achievements>>

\* the message of the dict the engine's process_action returns
ActionMessage(room, user_id, action, shots) ==
    IF action # "shoot" THEN "invalid_action"
    ELSE IF ~IsCurrentPlayer(room, user_id) THEN "not_your_turn"
    ELSE IF shots < MinShots \/ shots > MaxShotsPerTurn THEN "invalid_shots"
    ELSE "ok"

\* a status check that turns away the rooms still waiting only
ActionRefusedWaiting(status) == status = "waiting"

\* process_game_action's status check: the call is refused
ActionRefused(status) == status # "playing"

\* GameService.process_game_action
ProcessGameAction(room_id, user_id, action, shots) ==
    IF room_id \notin DOMAIN rooms
    THEN /\ result' = Failure("process_game_action", "room_not_found")
         /\ UNCHANGED <<users, rooms, free_ids, game_records, user_achievements>>
    ELSE IF rooms[room_id].game_type \notin game_engines
    THEN /\ result' = Failure("process_game_action", "engine_unavailable")
         /\ UNCHANGED <<users, rooms, free_ids, game_records, user_achievements>>
    ELSE IF ActionRefused(rooms[room_id].status)
    THEN /\ result' = Failure("process_game_action", "not_playing")
         /\ UNCHANGED <<users, rooms, free_ids, game_records, user_achievements>>
    ELSE
    LET acted == ProcessAction(rooms[room_id], user_id, action, shots)
        after == IF IsGameFinished(acted.room)
                 THEN FinishGame(Tables, acted.room)
                 ELSE [Tables EXCEPT !.rooms = Put(@, room_id, acted.room)]
    IN  /\ \A i \in 1..Len(acted.room.players) :
                acted.room.players[i].shots_fired <= MaxShots
        /\ users' = after.users
        /\ rooms' = after.rooms
        /\ game_records' = after.game_records
        /\ user_achievements' = after.user_achievements
        /\ result' = IF acted.success
                     THEN [Success("process_game_action", room_id, user_id)
                              EXCEPT !.hook_calls = after.hook_calls]
                     ELSE Failure("process_game_action",
                              ActionMessage(rooms[room_id], user_id, action, shots))
        /\ UNCHANGED free_ids

\* a refund that reaches the first seat only
RefundFirstSeat(us, players, bet_amount, i) ==
    AddCoins(us, players[1].user_id, bet_amount)

\* the loop `for player in room.players` of cancel_room over players[i..]
RECURSIVE RefundPlayers(_, _, _, _)
RefundPlayers(us, players, bet_amount, i) ==
    IF i > Len(players) THEN us
    ELSE RefundPlayers(AddCoins(us, players[i].user_id, bet_amount),
                       players, bet_amount, i + 1)

\* the statuses cancel_room refuses
CancelRefused(status) == status = "playing"

\* GameService.cancel_room
CancelRoom(room_id, user_id) ==
    IF room_id \notin DOMAIN rooms
    THEN /\ result' = Failure("cancel_room", "room_not_found")
         /\ UNCHANGED <<users, rooms, free_ids, game_records, user_achievements>>
    ELSE IF rooms[room_id].creator_id # user_id
    THEN /\ result' = Failure("cancel_room", "not_creator")
         /\ UNCHANGED <<users, rooms, free_ids, game_records, user_achievements>>
    ELSE IF CancelRefused(rooms[room_id].status)
    THEN /\ result' = Failure("cancel_room", "already_started")
         /\ UNCHANGED <<users, rooms, free_ids, game_records, user_achievements>>
    ELSE /\ users' = RefundPlayers(users, rooms[room_id].players,
                                   rooms[room_id].bet_amount, 1)
         /\ rooms' = Remove(rooms, room_id)
         /\ result' = Success("cancel_room", room_id, user_id)
         /\ UNCHANGED <<free_ids, game_records, user_achievements>>

----------------------------------------------------------------------------
(* The room specification: the five room operations on an empty database. *)

\* what a sender may ask create_room for
CreateRequests ==
    {<<g, b>> : g \in game_engines, b \in BetChoices} \cup {<<"blackjack", HighBet>>}

\* what a sender may ask process_game_action for
ActionRequests ==
    {<<"shoot", n>> : n \in ShotChoices} \cup {<<"spin", 1>>}

\* the database is empty; free_ids are the ids uuid4 has yet to hand out
Empty(ids) ==
    /\ users = <<>>
    /\ rooms = <<>>
    /\ free_ids = ids
    /\ game_records = <<>>
    /\ user_achievements = {}
    /\ result = Success("init", 0, "")

Init == Empty({1})

Next ==
    \/ \E q \in CreateRequests, u \in UserIds : CreateRoom(q[1], u, q[2])
    \/ \E r \in RoomIds, u \in UserIds : JoinRoom(r, u)
    \/ \E r \in RoomIds, u \in UserIds : StartRoom(r, u)
    \/ \E r \in RoomIds, u \in UserIds, q \in ActionRequests :
            ProcessGameAction(r, u, q[1], q[2])
    \/ \E r \in RoomIds, u \in UserIds : CancelRoom(r, u)

Spec == Init /\ [][Next]_vars

----------------------------------------------------------------------------
(* The lobby specification: two rooms are created, joined, started and     *)
(* cancelled; no action is played in them.                                 *)

InitLobby == Empty({1, 2})

NextLobby ==
    \/ \E q \in CreateRequests, u \in UserIds : CreateRoom(q[1], u, q[2])
    \/ \E r \in RoomIds, u \in UserIds : JoinRoom(r, u)
    \/ \E r \in RoomIds, u \in UserIds : StartRoom(r, u)
    \/ \E r \in RoomIds, u \in UserIds : CancelRoom(r, u)

SpecLobby == InitLobby /\ [][NextLobby]_vars

----------------------------------------------------------------------------
(* The ledger specification: the UserService operations on their own.      *)

\* the bool a ledger call returns, with the call it answers
Returned(op, success, user_id, amount, to_user_id) ==
    [op |-> op, success |-> success,
     message |-> IF success THEN "ok" ELSE "refused", room_id |-> 0,
     user_id |-> user_id, amount |-> amount, to_user_id |-> to_user_id,
     hook_calls |-> <<>>]

Earned(us, user_id) == IF user_id \in DOMAIN us THEN us[user_id].total_earned ELSE 0

\* UserService.get_or_create_user
CallGetOrCreateUser(user_id) ==
    /\ users' = GetOrCreateUser(users, user_id, SenderName(user_id))
    /\ result' = Returned("get_or_create_user", TRUE, user_id, 0, "")
    /\ UNCHANGED <<rooms, free_ids, game_records, user_achievements>>

\* UserService.add_coins
CallAddCoins(user_id, amount) ==
    /\ Earned(users, user_id) + amount <= MaxEarned
    /\ users' = AddCoins(users, user_id, amount)
    /\ result' = Returned("add_coins", user_id \in DOMAIN users, user_id, amount, "")
    /\ UNCHANGED <<rooms, free_ids, game_records, user_achievements>>

\* UserService.spend_coins
CallSpendCoins(user_id, amount) ==
    /\ users' = SpendCoins(users, user_id, amount)
    /\ result' = Returned("spend_coins", SpendCoinsOk(users, user_id, amount),
                          user_id, amount, "")
    /\ UNCHANGED <<rooms, free_ids, game_records, user_achievements>>

\* UserService.transfer_coins
CallTransferCoins(from_user_id, to_user_id, amount) ==
    /\ Earned(users, to_user_id) + amount <= MaxEarned
    /\ users' = TransferCoins(users, from_user_id, to_user_id, amount)
    /\ result' = Returned("transfer_coins",
                          TransferOk(users, from_user_id, to_user_id, amount),
                          from_user_id, amount, to_user_id)
    /\ UNCHANGED <<rooms, free_ids, game_records, user_achievements>>

NextLedger ==
    \/ \E u \in LedgerUsers : CallGetOrCreateUser(u)
    \/ \E u \in LedgerUsers, a \in Amounts : CallAddCoins(u, a)
    \/ \E u \in LedgerUsers, a \in Amounts : CallSpendCoins(u, a)
    \/ \E f \in LedgerUsers, t \in LedgerUsers, a \in Amounts :
            CallTransferCoins(f, t, a)

SpecLedger == Init /\ [][NextLedger]_vars

----------------------------------------------------------------------------
(* The full-room specification: one more sender than a room has seats      *)
(* creates, joins and cancels a room at the lowest bet.                    *)

\* seven senders for the six seats of a room
FillUsers == UserIds \cup {"b", "c", "g", "k"}

NextFill ==
    \/ \E u \in FillUsers : CreateRoom(RouletteType, u, MinBet)
    \/ \E r \in RoomIds, u \in FillUsers : JoinRoom(r, u)
    \/ \E r \in RoomIds, u \in FillUsers : CancelRoom(r, u)

SpecFill == Init /\ [][NextFill]_vars

----------------------------------------------------------------------------
(* The settlement specification: GameService._finish_game applied to a     *)
(* started room whose seats carry any pattern of is_alive flags.           *)

\* the bets of the rooms handed to _finish_game
SettleBets == {MinBet, MinBet + 1, HighBet}

\* the seat lists of two or three distinct users, in any order
SeatOrders ==
    UNION {{f \in [1..n -> UserIds] :
                \A i, j \in 1..n : f[i] = f[j] => i = j} :
           n \in MinPlayers..Cardinality(UserIds)}

\* the room after start_room and the shots taken: seat i alive as alive[i]
StartedRoom(seats, alive, bet) ==
    [NewRoom(1, RouletteType, seats[1], SenderName(seats[1]), bet) EXCEPT
        !.status = "playing",
        !.game_data = [@ EXCEPT !.bullet_position = 1],
        !.players = [i \in 1..Len(seats) |->
                        [user_id |-> seats[i], username |-> SenderName(seats[i]),
                         is_alive |-> alive[i],
                         shots_fired |-> IF alive[i] THEN 0 ELSE 1]]]

\* every seated user has paid the bet out of the coins a new user has
InitSettle ==
    \E seats \in SeatOrders, bet \in SettleBets :
    \E alive \in [1..Len(seats) -> BOOLEAN] :
        /\ rooms = Put(<<>>, 1, StartedRoom(seats, alive, bet))
        /\ users = [u \in Range(seats) |->
                        UserSpendCoins(NewUser(u, SenderName(u)), bet)]
        /\ free_ids = {}
        /\ game_records = <<>>
        /\ user_achievements = {}
        /\ result = Success("start_room", 1, seats[1])

\* GameService._finish_game on the stored room
Settle(room_id) ==
    /\ rooms[room_id].status = "playing"
    /\ LET after == FinishGame(Tables, rooms[room_id])
       IN  /\ users' = after.users
           /\ rooms' = after.rooms
           /\ game_records' = after.game_records
           /\ user_achievements' = after.user_achievements
           /\ result' = [Success("_finish_game", room_id, "")
                            EXCEPT !.hook_calls = after.hook_calls]
    /\ UNCHANGED free_ids

NextSettle == \E r \in DOMAIN rooms : Settle(r)

SpecSettle == InitSettle /\ [][NextSettle]_vars

----------------------------------------------------------------------------
(* The fault specification: a write of the settlement may raise. Every     *)
(* repository call commits on a connection of its own and no caller        *)
(* catches, so the writes made before the exception stay and the rest of   *)
(* process_game_action, the room write included, is skipped.               *)

\* the loop `for player in room.players` of _finish_game over the seats
\* i..last: the exception is raised before seat last + 1 is recorded
RECURSIVE RecordPlayersUntil(_, _, _, _, _)
RecordPlayersUntil(st, room, winners, i, last) ==
    IF i > last THEN st
    ELSE LET player   == room.players[i]
             record   == GameRecordOf(room, player, winners)
             recorded == [st EXCEPT !.game_records = Append(@, record)]
             hooked   == CheckAndAwardAchievements(recorded, player.user_id,
                             "game",
                             AchievementData(room,
                                 player.user_id \in Range(winners)))
         IN  RecordPlayersUntil(hooked, room, winners, i + 1, last)

\* the writes _finish_game has committed when it raises: none at stage 0 (the
\* first add_coins raises), the winners' credits at stage 1, and the records
\* and achievements of the first stage - 1 seats after that; at stage
\* 1 + Len(room.players) it is the last write, update_room, that raises
FinishGameRaises(st, room, stage) ==
    LET finished == [room EXCEPT !.status = "finished"]
        winners  == Winners(finished)
        credited == IF winners # <<>> /\ stage >= 1
                    THEN [st EXCEPT !.users =
                            CreditWinners(@, winners, PrizePerWinner(finished), 1)]
                    ELSE st
    IN  IF stage <= 1 THEN credited
        ELSE RecordPlayersUntil(credited, finished, winners, 1, stage - 1)

\* what the caller of a call that raised is left with
Raised(op, room_id, user_id) ==
    [op |-> op, success |-> FALSE, message |-> "raised", room_id |-> room_id,
     user_id |-> user_id, amount |-> 0, to_user_id |-> "",
     hook_calls |-> <<>>]

\* GameService.process_game_action when the settlement it starts raises at
\* the given stage; it is the first settlement attempted on the database
ProcessGameActionRaises(room_id, user_id, action, shots, stage) ==
    /\ room_id \in DOMAIN rooms
    /\ rooms[room_id].game_type \in game_engines
    /\ ~ActionRefused(rooms[room_id].status)
    /\ game_records = <<>>
    /\ \A u \in DOMAIN users : users[u].total_earned = 0
    /\ LET acted == ProcessAction(rooms[room_id], user_id, action, shots)
           after == FinishGameRaises(Tables, acted.room, stage)
       IN  /\ IsGameFinished(acted.room)
           /\ stage <= 1 + Len(acted.room.players)
           /\ users' = after.users
           /\ game_records' = after.game_records
           /\ user_achievements' = after.user_achievements
           /\ result' = [Raised("process_game_action", room_id, user_id)
                            EXCEPT !.hook_calls = after.hook_calls]
    /\ UNCHANGED <<rooms, free_ids>>

\* the users who play in the fault specification
FaultUsers == {"x", "z"}

NextFault ==
    \/ \E u \in FaultUsers : CreateRoom(RouletteType, u, HighBet)
    \/ \E r \in RoomIds, u \in FaultUsers : JoinRoom(r, u)
    \/ \E r \in RoomIds, u \in FaultUsers : StartRoom(r, u)
    \/ \E r \in RoomIds, u \in FaultUsers, q \in ActionRequests :
            ProcessGameAction(r, u, q[1], q[2])
    \/ \E r \in RoomIds, u \in FaultUsers, q \in ActionRequests,
          stage \in 0..(1 + Cardinality(FaultUsers)) :
            ProcessGameActionRaises(r, u, q[1], q[2], stage)

SpecFault == Init /\ [][NextFault]_vars

----------------------------------------------------------------------------
(* The sweep specification: single shots are fired in a room that has just *)
(* been started, for every position of the bullet.                         *)

InitSweep ==
    \E seats \in SeatOrders, bullet \in 1..ChamberCount :
        /\ rooms = Put(<<>>, 1,
              [StartedRoom(seats, [i \in 1..Len(seats) |-> TRUE], HighBet)
                  EXCEPT !.game_data = [@ EXCEPT !.bullet_position = bullet]])
        /\ users = [u \in Range(seats) |->
                        UserSpendCoins(NewUser(u, SenderName(u)), HighBet)]
        /\ free_ids = {}
        /\ game_records = <<>>
        /\ user_achievements = {}
        /\ result = Success("start_room", 1, seats[1])

NextSweep ==
    \E r \in DOMAIN rooms, u \in UserIds :
        ProcessGameAction(r, u, "shoot", MinShots)

SpecSweep == InitSweep /\ [][NextSweep]_vars

----------------------------------------------------------------------------
(* The engine specification: process_game_action is applied to the rooms   *)
(* the engine's process_action accepts as its input: a room in play with   *)
(* two or three seats of which two at least are alive, the turn at an      *)
(* alive seat, and the chamber and the bullet at any position.  These are  *)
(* more rooms than start_game and the shots after it produce: in those the *)
(* chamber never passes the bullet and a dead seat keeps the turn.         *)

\* the seat lists of the engine specification: two seats and three
EngineSeats == {<<"x", "xy">>, <<"x", "xy", "z">>}

InitEngine ==
    \E seats \in EngineSeats, bullet \in 1..ChamberCount,
       position \in 1..ChamberCount :
    \E alive \in [1..Len(seats) -> BOOLEAN], index \in 0..(Len(seats) - 1) :
        /\ Cardinality({i \in 1..Len(seats) : alive[i]}) >= MinPlayers
        /\ alive[index + 1]
        /\ rooms = Put(<<>>, 1,
              [StartedRoom(seats, alive, HighBet)
                  EXCEPT !.game_data = [@ EXCEPT
                            !.bullet_position = bullet,
                            !.current_position = position,
                            !.current_player_index = index]])
        /\ users = [u \in Range(seats) |->
                        UserSpendCoins(NewUser(u, SenderName(u)), HighBet)]
        /\ free_ids = {}
        /\ game_records = <<>>
        /\ user_achievements = {}
        /\ result = Success("start_room", 1, seats[1])

NextEngine ==
    \E r \in DOMAIN rooms, u \in UserIds, q \in ActionRequests :
        ProcessGameAction(r, u, q[1], q[2])

SpecEngine == InitEngine /\ [][NextEngine]_vars

----------------------------------------------------------------------------
(* The play specification: in a room that has just been started, whoever   *)
(* is the current player keeps submitting valid shoot actions.  No test of *)
(* the code reads shots_fired, which grows without bound; it is kept here  *)
(* modulo MaxShots + 1, so that play that never ends is a cycle of states. *)

\* the room with every shots_fired counter folded into 0..MaxShots
FoldShots(room) ==
    [room EXCEPT !.players =
        [i \in 1..Len(room.players) |->
            [room.players[i] EXCEPT !.shots_fired = @ % (MaxShots + 1)]]]

\* a room of two or three players that was just started, the bullet in any
\* chamber
InitPlay ==
    \E seats \in EngineSeats, bullet \in 1..ChamberCount :
        /\ rooms = Put(<<>>, 1,
              [StartedRoom(seats, [i \in 1..Len(seats) |-> TRUE], HighBet)
                  EXCEPT !.game_data = [@ EXCEPT !.bullet_position = bullet]])
        /\ users = [u \in Range(seats) |->
                        UserSpendCoins(NewUser(u, SenderName(u)), HighBet)]
        /\ free_ids = {}
        /\ game_records = <<>>
        /\ user_achievements = {}
        /\ result = Success("start_room", 1, seats[1])

\* GameService.process_game_action(room_id, current player, 'shoot', shots)
\* with a valid number of shots
ShootByCurrent(room_id, shots) ==
    /\ room_id \in DOMAIN rooms
    /\ rooms[room_id].game_type \in game_engines
    /\ ~ActionRefused(rooms[room_id].status)
    /\ LET room    == rooms[room_id]
           user_id == room.players[room.game_data.current_player_index + 1].user_id
           acted   == ProcessAction(room, user_id, "shoot", shots)
           folded  == FoldShots(acted.room)
       IN  /\ acted.success
           /\ \E after \in {IF IsGameFinished(folded)
                             THEN FinishGame(Tables, folded)
                             ELSE [Tables EXCEPT
                                     !.rooms = Put(@, room_id, folded)]} :
                 /\ users' = after.users
                 /\ rooms' = after.rooms
                 /\ game_records' = after.game_records
                 /\ user_achievements' = after.user_achievements
                 /\ result' = [Success("process_game_action", room_id, user_id)
                                  EXCEPT !.hook_calls = after.hook_calls]
    /\ UNCHANGED free_ids

NextPlay ==
    \E r \in DOMAIN rooms, shots \in MinShots..MaxShotsPerTurn :
        ShootByCurrent(r, shots)

\* the current player's shoot is taken if it stays possible
SpecPlay == InitPlay /\ [][NextPlay]_vars /\ WF_vars(NextPlay)

----------------------------------------------------------------------------
(* What a step did, read from the two states of the step. *)

Active(status) == status \in {"waiting", "playing"}

Seated(room, user_id) ==
    \E i \in 1..Len(room.players) : room.players[i].user_id = user_id

\* the balance a user has, or is created with
Balance(us, user_id) ==
    IF user_id \in DOMAIN us THEN us[user_id].coins ELSE InitialCoins

\* the reward coins of the achievements recorded for the user in this step
RECURSIVE HookReward(_, _)
HookReward(user_id, i) ==
    IF i > Len(Achievements) THEN 0
    ELSE (IF <<user_id, Achievements[i].id>>
                \in user_achievements' \ user_achievements
          THEN Achievements[i].reward_coins ELSE 0)
         + HookReward(user_id, i + 1)

\* the step settled room r
Settled(r) ==
    /\ r \in DOMAIN rooms /\ r \in DOMAIN rooms'
    /\ rooms[r].status = "playing" /\ rooms'[r].status = "finished"

----------------------------------------------------------------------------
(* Claims. *)

\* C1: bets are never refunded after a room has started: a cancel_room that
\* succeeds was called on a room still waiting, and a cancel_room that fails
\* changes no user's balance.
C1_NoRefundAfterStart ==
    [][result'.op = "cancel_room" =>
        IF result'.success
        THEN rooms[result'.room_id].status = "waiting"
        ELSE \A u \in DOMAIN users : users'[u].coins = users[u].coins]_vars

\* C2: a stored room only goes waiting -> playing by start_room and
\* playing -> finished by process_game_action, only a waiting room is
\* deleted, and that by cancel_room; a finished room stays as it is.
C2_LifecycleEdges ==
    [][\A r \in DOMAIN rooms :
        IF r \in DOMAIN rooms'
        THEN \/ rooms'[r].status = rooms[r].status
             \/ /\ rooms[r].status = "waiting" /\ rooms'[r].status = "playing"
                /\ result'.op = "start_room"
             \/ /\ rooms[r].status = "playing" /\ rooms'[r].status = "finished"
                /\ result'.op = "process_game_action"
        ELSE rooms[r].status = "waiting" /\ result'.op = "cancel_room"]_vars

C4_OverdraftRefused ==
    [][(/\ result'.op = "spend_coins"
        /\ result'.user_id \in DOMAIN users
        /\ result'.amount > users[result'.user_id].coins)
       => /\ ~result'.success
          /\ users'[result'.user_id] = users[result'.user_id]]_vars

C4_Witness ==
    /\ result.op = "spend_coins" /\ ~result.success
    /\ result.user_id \in DOMAIN users
    /\ result.amount > users[result.user_id].coins
    /\ users[result.user_id].total_spent > 0

C6_CancelRefundsEverySeat ==
    [][(/\ result'.op = "cancel_room" /\ result'.success
        /\ rooms[result'.room_id].status = "waiting")
       => LET r == result'.room_id
          IN  /\ result'.user_id = rooms[r].creator_id
              /\ r \notin DOMAIN rooms'
              /\ DOMAIN users' = DOMAIN users
              /\ \A u \in DOMAIN users :
                    users'[u].coins = users[u].coins
                        + (IF Seated(rooms[r], u) THEN rooms[r].bet_amount
                           ELSE 0)]_vars

C6_Witness ==
    /\ result.op = "cancel_room" /\ result.success
    /\ game_records = <<>>
    /\ Cardinality({u \in DOMAIN users :
            /\ users[u].total_spent = HighBet
            /\ users[u].total_earned = HighBet}) = 3

\* C7: a create_room by a user who is creator of, or seated in, a room that is
\* waiting or playing fails: a create_room that succeeds was called by a user
\* with no such room, and a create_room that fails debits nothing and stores
\* no room.
C7_SecondCreateRefused ==
    [][result'.op = "create_room" =>
        /\ result'.success =>
              \A r \in DOMAIN rooms :
                  Active(rooms[r].status) =>
                      /\ rooms[r].creator_id # result'.user_id
                      /\ ~Seated(rooms[r], result'.user_id)
        /\ ~result'.success =>
              /\ rooms' = rooms
              /\ \A u \in DOMAIN users :
                    /\ users'[u].coins = users[u].coins
                    /\ users'[u].total_spent = users[u].total_spent]_vars

C7_Witness ==
    /\ result.op = "create_room" /\ result.message = "already_in_room"
    /\ \E r \in DOMAIN rooms : rooms[r].status = "playing"
    /\ free_ids # {}

\* C8: no user is creator of, or seated in, more than one room that is
\* waiting or playing.
C8_OneActiveRoomPerUser ==
    \A u \in UserIds :
        Cardinality({r \in DOMAIN rooms :
            /\ Active(rooms[r].status)
            /\ rooms[r].creator_id = u \/ Seated(rooms[r], u)}) <= 1

\* C9: when a room with bet b and n seats is settled with exactly one winner,
\* the settlement credits the winner b * n and no other seated player: the
\* winner's balance rises by b * n plus the reward of the achievements the
\* hook records for the winner in the same call, and every other balance
\* stays as it is.
C9_SingleWinnerTakesPot ==
    [][\A r \in DOMAIN rooms :
        (Settled(r) /\ Len(Winners(rooms'[r])) = 1) =>
            LET w == Winners(rooms'[r])[1]
            IN  /\ Seated(rooms[r], w)
                /\ users'[w].coins - HookReward(w, 1)
                     = users[w].coins
                       + rooms[r].bet_amount * Len(rooms[r].players)
                /\ \A u \in (DOMAIN users) \ {w} :
                      users'[u].coins = users[u].coins]_vars

C9_Witness ==
    /\ result.op = "process_game_action" /\ result.success
    /\ \E r \in DOMAIN rooms :
          /\ rooms[r].status = "finished"
          /\ Len(Winners(rooms[r])) = 1
          /\ Len(rooms[r].players) = 2
          /\ users[Winners(rooms[r])[1]].total_earned
                >= 2 * rooms[r].bet_amount

\* C10: the settlement of a room appends one GameRecord per seated player, in
\* seat order: win with coins_won the share credited for a winner, lose with
\* coins_won 0 for every other seat, coins_bet the room's bet; every other
\* step leaves game_records as they are.
C10_OneRecordPerSeat ==
    [][IF \E r \in DOMAIN rooms : Settled(r)
       THEN \A r \in DOMAIN rooms : Settled(r) =>
            LET n == Len(rooms'[r].players)
            IN  /\ Len(game_records') = Len(game_records) + n
                /\ SubSeq(game_records', 1, Len(game_records)) = game_records
                /\ \A i \in 1..n :
                    LET g == game_records'[Len(game_records) + i]
                        p == rooms'[r].players[i]
                    IN  /\ g.user_id = p.user_id
                        /\ g.coins_bet = rooms[r].bet_amount
                        /\ g.result = (IF p.is_alive THEN "win" ELSE "lose")
                        /\ g.coins_won =
                             users'[p.user_id].coins - users[p.user_id].coins
                               - HookReward(p.user_id, 1)
                        /\ ~p.is_alive => g.coins_won = 0
       ELSE game_records' = game_records]_vars

C10_Witness ==
    /\ Len(game_records) = 2
    /\ \E i, j \in 1..2 :
          /\ game_records[i].result = "win"
          /\ game_records[i].coins_won = 2 * game_records[i].coins_bet
          /\ game_records[j].result = "lose"
          /\ game_records[j].coins_won = 0

\* the coins the step credited to the seats players[i..], achievement rewards
\* left out
RECURSIVE CreditedTo(_, _)
CreditedTo(players, i) ==
    IF i > Len(players) THEN 0
    ELSE LET u == players[i].user_id
         IN  users'[u].coins - users[u].coins - HookReward(u, 1)
             + CreditedTo(players, i + 1)

\* C11: a settlement with k >= 1 winners and pot P = bet_amount * seats
\* credits each winner P \div k and no other seat anything, so that the seats
\* together receive P - (P % k): the remainder is credited to no one.
C11_WinnersGetFloorShare ==
    [][\A r \in DOMAIN rooms :
        (Settled(r) /\ Len(Winners(rooms'[r])) >= 1) =>
            LET P == rooms[r].bet_amount * Len(rooms[r].players)
                k == Len(Winners(rooms'[r]))
            IN  /\ \A i \in 1..Len(rooms[r].players) :
                      LET p == rooms'[r].players[i]
                      IN  users'[p.user_id].coins - HookReward(p.user_id, 1)
                            = users[p.user_id].coins
                              + (IF p.is_alive THEN P \div k ELSE 0)
                /\ CreditedTo(rooms[r].players, 1) = P - (P % k)
                /\ \A u \in DOMAIN users :
                      ~Seated(rooms[r], u) => users'[u] = users[u]]_vars

C11_Witness ==
    /\ result.op = "_finish_game"
    /\ \E r \in DOMAIN rooms :
          /\ rooms[r].status = "finished"
          /\ Len(rooms[r].players) = 3
          /\ Len(Winners(rooms[r])) = 2
          /\ (rooms[r].bet_amount * 3) % 2 = 1
          /\ \A i \in 1..2 :
                users[Winners(rooms[r])[i]].coins
                    = InitialCoins - rooms[r].bet_amount
                      + (rooms[r].bet_amount * 3) \div 2 + 100

\* C12: a room is settled at most once: a process_game_action that succeeds
\* was called on a playing room, no process_game_action changes a finished
\* room, and when the stored room is finished every process_game_action fails
\* and leaves users, game records and awarded achievements as they are.
C12_SettledOnce ==
    [][result'.op = "process_game_action" =>
        /\ result'.success => rooms[result'.room_id].status = "playing"
        /\ \A r \in DOMAIN rooms :
              rooms[r].status = "finished" =>
                  r \in DOMAIN rooms' /\ rooms'[r] = rooms[r]
        /\ (\A r \in DOMAIN rooms : rooms[r].status = "finished") =>
              /\ ~result'.success
              /\ users' = users
              /\ game_records' = game_records
              /\ user_achievements' = user_achievements]_vars

C12_Witness ==
    /\ result.op = "process_game_action" /\ result.message = "not_playing"
    /\ \E r \in DOMAIN rooms :
          /\ rooms[r].status = "finished"
          /\ Len(game_records) = Len(rooms[r].players)
          /\ \E u \in DOMAIN users : <<u, "roulette_first_win">> \in user_achievements

\* C13: when a write of the settlement raises, the stored room is not left in
\* status playing, and the settlement that later completes credits the
\* winner the pot once: the winner has earned nothing from the room before.
C13_FailedSettlementLeavesNoPlayingRoom ==
    [][/\ result'.message = "raised" =>
              rooms'[result'.room_id].status # "playing"
       /\ \A r \in DOMAIN rooms :
              Settled(r) =>
                  \A i \in 1..Len(rooms'[r].players) :
                      users[rooms'[r].players[i].user_id].total_earned = 0]_vars

C15_OneSeatPerUser ==
    [][/\ \A r \in DOMAIN rooms' :
              \A i, j \in 1..Len(rooms'[r].players) :
                  rooms'[r].players[i].user_id = rooms'[r].players[j].user_id
                      => i = j
       /\ (result'.op = "join_room" /\ result'.success) =>
              ~Seated(rooms[result'.room_id], result'.user_id)
       /\ (result'.op = "join_room" /\ result'.message = "already_joined") =>
              users' = users /\ rooms' = rooms]_vars

C15_Witness ==
    /\ result.op = "join_room" /\ result.message = "already_joined"
    /\ \E r \in DOMAIN rooms :
          /\ rooms[r].status = "waiting"
          /\ Len(rooms[r].players) = 3

\* C16: a join_room that succeeds lowers the joiner's balance by the room's
\* bet, appends one seat for the joiner to the room, and changes no other
\* user, no other seat, no other field of the room and no other room.
C16_JoinDebitsAndSeatsOnce ==
    [][(result'.op = "join_room" /\ result'.success) =>
        LET r == result'.room_id
            u == result'.user_id
        IN  /\ DOMAIN rooms' = DOMAIN rooms
            /\ \A o \in (DOMAIN rooms) \ {r} : rooms'[o] = rooms[o]
            /\ Len(rooms'[r].players) = Len(rooms[r].players) + 1
            /\ rooms'[r].players[Len(rooms'[r].players)].user_id = u
            /\ SubSeq(rooms'[r].players, 1, Len(rooms[r].players))
                  = rooms[r].players
            /\ [rooms'[r] EXCEPT !.players = rooms[r].players] = rooms[r]
            /\ rooms'[r].status = "waiting"
            /\ DOMAIN users' = (DOMAIN users) \cup {u}
            /\ users'[u].coins = Balance(users, u) - rooms[r].bet_amount
            /\ \A v \in (DOMAIN users) \ {u} : users'[v] = users[v]
            /\ game_records' = game_records]_vars

C16_Witness ==
    /\ result.op = "join_room" /\ result.success
    /\ Len(rooms[result.room_id].players) = 3
    /\ rooms[result.room_id].players[3].user_id = result.user_id
    /\ users[result.user_id].coins = InitialCoins - HighBet

\* C17: a room goes from waiting to playing only in a start_room called by
\* its creator on a room of at least min_players seats; every room that is
\* playing or finished has between min_players and max_players seats.
C17_StartByCreatorWithEnoughSeats ==
    [][\A r \in DOMAIN rooms' :
        /\ (/\ r \in DOMAIN rooms
            /\ rooms[r].status = "waiting" /\ rooms'[r].status # "waiting")
           => /\ rooms'[r].status = "playing"
              /\ result'.op = "start_room" /\ result'.success
              /\ result'.room_id = r
              /\ result'.user_id = rooms[r].creator_id
              /\ Len(rooms[r].players) >= rooms[r].min_players
        /\ rooms'[r].status \in {"playing", "finished"}
           => /\ Len(rooms'[r].players) >= rooms'[r].min_players
              /\ Len(rooms'[r].players) <= rooms'[r].max_players]_vars

C17_Witness ==
    /\ result.op = "start_room" /\ result.success
    /\ rooms[result.room_id].status = "playing"
    /\ Len(rooms[result.room_id].players) = MinPlayers
    /\ rooms[result.room_id].creator_id = result.user_id

\* C18: a create_room, join_room, start_room, process_game_action or
\* cancel_room that returns failure leaves the stored users, rooms and game
\* records as they were.
C18_FailureChangesNothing ==
    [][~result'.success =>
        /\ users' = users
        /\ rooms' = rooms
        /\ game_records' = game_records]_vars

\* C19: a process_game_action that succeeds was called by the room's current
\* player, and the one refused because it is not the caller's turn leaves
\* the stored rooms (chamber position, bullet position, current player index,
\* every seat's is_alive and shots_fired), users and game records unchanged.
C19_OnlyCurrentPlayerActs ==
    [][result'.op = "process_game_action" =>
        /\ result'.success =>
              LET room == rooms[result'.room_id]
              IN  room.players[room.game_data.current_player_index + 1].user_id
                    = result'.user_id
        /\ result'.message = "not_your_turn" =>
              /\ rooms' = rooms
              /\ users' = users
              /\ game_records' = game_records]_vars

C19_Witness ==
    /\ result.op = "process_game_action" /\ result.message = "not_your_turn"
    /\ \E r \in DOMAIN rooms :
          /\ rooms[r].status = "playing"
          /\ rooms[r].game_data.current_position > 1
          /\ rooms[r].game_data.current_player_index > 0

\* the shots the seats players[i..] have fired
RECURSIVE ShotsFired(_, _)
ShotsFired(players, i) ==
    IF i > Len(players) THEN 0
    ELSE players[i].shots_fired + ShotsFired(players, i + 1)

\* C20: of the first six single shots fired in a room since its start, one
\* and only one hits: a shot that hits finds every seat alive, and after the
\* sixth shot a seat is dead.
C20_SixPullsHitOnce ==
    [][\A r \in (DOMAIN rooms) \cap (DOMAIN rooms') :
        (/\ ShotsFired(rooms'[r].players, 1)
                = ShotsFired(rooms[r].players, 1) + 1
         /\ ShotsFired(rooms'[r].players, 1) <= ChamberCount)
        => /\ rooms[r].game_data.current_position
                  = rooms[r].game_data.bullet_position
              => \A i \in 1..Len(rooms[r].players) :
                      rooms[r].players[i].is_alive
           /\ ShotsFired(rooms'[r].players, 1) = ChamberCount
              => \E i \in 1..Len(rooms'[r].players) :
                      ~rooms'[r].players[i].is_alive]_vars

\* C21: transfer_coins is all or nothing: when it returns true the balance of
\* from is lowered by the amount and the balance of to is raised by it (a
\* user who is both ends up where they were), and no other user changes;
\* when it returns false no user changes.
C21_TransferAllOrNothing ==
    [][result'.op = "transfer_coins" =>
        IF result'.success
        THEN /\ DOMAIN users' = DOMAIN users
             /\ \A u \in DOMAIN users :
                   users'[u].coins = users[u].coins
                       - (IF u = result'.user_id THEN result'.amount ELSE 0)
                       + (IF u = result'.to_user_id THEN result'.amount ELSE 0)
        ELSE users' = users]_vars

\* C22: at settlement the achievement hook is called exactly once for each
\* seat, in seat order, with trigger type game and the outcome win for the
\* winners and lose for every other seat; a room operation that settles no
\* room calls the hook not at all and records no achievement.
C22_HookOncePerSeat ==
    [][IF \E r \in DOMAIN rooms : Settled(r)
       THEN \A r \in DOMAIN rooms : Settled(r) =>
              /\ Len(result'.hook_calls) = Len(rooms'[r].players)
              /\ \A i \in 1..Len(rooms'[r].players) :
                    LET p == rooms'[r].players[i]
                        c == result'.hook_calls[i]
                    IN  /\ c.user_id = p.user_id
                        /\ c.trigger_type = "game"
                        /\ c.value.game_type = rooms'[r].game_type
                        /\ c.value.outcome =
                              (IF p.user_id \in Range(Winners(rooms'[r]))
                               THEN "win" ELSE "lose")
       ELSE /\ result'.hook_calls = <<>>
            /\ user_achievements' = user_achievements]_vars

\* a settlement has called the hook for a winner and for a loser
C22_Witness ==
    /\ result.op = "process_game_action" /\ result.success
    /\ \E i, j \in 1..Len(result.hook_calls) :
          /\ result.hook_calls[i].value.outcome = "win"
          /\ result.hook_calls[j].value.outcome = "lose"
          /\ result.hook_calls[i].user_id # result.hook_calls[j].user_id

\* C25: a room written to storage and read back is the room written: for
\* every stored room, the row create_room / update_room write, converted by
\* _row_to_game_room, has the seat list, the game data and the settings of
\* the room, and its other columns.
C25_RoomRoundTrip ==
    \A r \in DOMAIN rooms :
        LET read == RowToGameRoom(RoomRow(rooms[r]))
        IN  /\ read.players = rooms[r].players
            /\ read.game_data = rooms[r].game_data
            /\ read.settings = rooms[r].settings
            /\ read = rooms[r]

\* a stored room in play with a dead seat, an alive seat that has fired and
\* the chamber moved on
C25_Witness ==
    \E r \in DOMAIN rooms :
        /\ rooms[r].status = "playing"
        /\ Len(rooms[r].players) = 3
        /\ rooms[r].game_data.current_position > 1
        /\ \E i, j \in 1..Len(rooms[r].players) :
              /\ ~rooms[r].players[i].is_alive
              /\ rooms[r].players[j].is_alive
              /\ rooms[r].players[j].shots_fired > 1
        /\ RowToGameRoom(RoomRow(rooms[r])).players = rooms[r].players

\* the seat after seat index, circularly, that is alive in players
NextAliveSeat(players, index) ==
    LET n == Len(players)
        k == CHOOSE k \in 1..n :
                /\ players[((index + k) % n) + 1].is_alive
                /\ \A m \in 1..(k - 1) : ~players[((index + m) % n) + 1].is_alive
    IN  (index + k) % n

\* C26: a successful shoot of c pulls by the current player has c in 1..3;
\* with d the number of chambers between the chamber position and the bullet
\* (counted forward, wrapping from chamber_count to 1), if d < c the actor is
\* hit at the pull that finds the bullet, is not alive afterwards and the
\* position has advanced by the d misses before it and rests on the bullet;
\* otherwise all c pulls miss, the actor's life is unchanged and the
\* position has advanced by c, wrapping from chamber_count to 1.
C26_PullsAdvanceByMisses ==
    [][(result'.op = "process_game_action" /\ result'.success) =>
        LET r      == result'.room_id
            gd     == rooms[r].game_data
            seat   == gd.current_player_index + 1
            c      == rooms'[r].players[seat].shots_fired
                          - rooms[r].players[seat].shots_fired
            n      == gd.chamber_count
            d      == (gd.bullet_position - gd.current_position) % n
            misses == IF d < c THEN d ELSE c
        IN  /\ c \in MinShots..MaxShotsPerTurn
            /\ rooms'[r].game_data.current_position
                  = ((gd.current_position - 1 + misses) % n) + 1
            /\ IF d < c
               THEN /\ ~rooms'[r].players[seat].is_alive
                    /\ rooms'[r].game_data.current_position = gd.bullet_position
               ELSE rooms'[r].players[seat].is_alive
                        = rooms[r].players[seat].is_alive
            /\ \A i \in 1..Len(rooms[r].players) :
                  i # seat => rooms'[r].players[i] = rooms[r].players[i]]_vars

\* three pulls by the first of two seats have all missed and have taken the
\* chamber from 5 past chamber_count to 2
C26_Witness ==
    /\ result.op = "process_game_action" /\ result.success
    /\ Len(rooms[1].players) = 2
    /\ rooms[1].players[1].is_alive /\ rooms[1].players[2].is_alive
    /\ rooms[1].players[1].shots_fired = MaxShotsPerTurn
    /\ rooms[1].players[2].shots_fired = 0
    /\ rooms[1].game_data.current_position = 2

\* C27: after a successful shoot that the actor survives and after which the
\* game continues, the current player is the next alive seat after the
\* actor, circularly, dead seats passed over; after every other
\* process_game_action (refused, or the actor hit) the index is unchanged.
C27_TurnPassesToNextAlive ==
    [][result'.op = "process_game_action" =>
        \A r \in DOMAIN rooms :
            LET index == rooms[r].game_data.current_player_index
            IN  /\ r \in DOMAIN rooms'
                /\ rooms'[r].game_data.current_player_index =
                      IF /\ result'.success
                         /\ rooms'[r].players[index + 1].is_alive
                         /\ rooms'[r].status = "playing"
                      THEN NextAliveSeat(rooms'[r].players, index)
                      ELSE index]_vars

\* the first seat has fired and survived, and the turn has passed over the
\* dead second seat to the third, which has not fired yet
C27_Witness ==
    /\ result.op = "process_game_action" /\ result.success
    /\ Len(rooms[1].players) = 3
    /\ rooms[1].status = "playing"
    /\ rooms[1].players[1].is_alive /\ rooms[1].players[1].shots_fired > 0
    /\ ~rooms[1].players[2].is_alive
    /\ rooms[1].players[3].is_alive /\ rooms[1].players[3].shots_fired = 0
    /\ rooms[1].game_data.current_player_index = 2

\* C28: no stored room in status playing has fewer than two alive players,
\* and a process_game_action that leaves a playing room with at most one
\* alive player stores it finished and settles it in the same call: one
\* game record for each seat is added.
C28_PlayingHasTwoAlive ==
    [][\A r \in DOMAIN rooms' :
        /\ rooms'[r].status = "playing" =>
              Len(AlivePlayers(rooms'[r].players)) >= 2
        /\ ( /\ r \in DOMAIN rooms
             /\ rooms[r].status = "playing"
             /\ Cardinality({i \in 1..Len(rooms'[r].players) :
                                rooms'[r].players[i].is_alive}) <= 1 )
           => /\ rooms'[r].status = "finished"
              /\ result'.op = "process_game_action"
              /\ Len(game_records') = Len(game_records) + Len(rooms'[r].players)
              /\ \A i \in 1..Len(rooms'[r].players) :
                    game_records'[Len(game_records) + i].user_id
                        = rooms'[r].players[i].user_id]_vars

\* a shot has left one player alive and the room is stored finished with its
\* records written
C28_Witness ==
    /\ result.op = "process_game_action" /\ result.success
    /\ \E r \in DOMAIN rooms :
          /\ rooms[r].status = "finished"
          /\ Cardinality({i \in 1..Len(rooms[r].players) :
                             rooms[r].players[i].is_alive}) = 1
          /\ Len(game_records) >= Len(rooms[r].players)

\* C29: no settlement is without a winner: every stored finished room has
\* exactly one alive seat, and its winners are that seat's user alone.
C29_FinishedHasOneWinner ==
    \A r \in DOMAIN rooms :
        rooms[r].status = "finished" =>
            \E i \in 1..Len(rooms[r].players) :
                /\ rooms[r].players[i].is_alive
                /\ \A j \in 1..Len(rooms[r].players) :
                      rooms[r].players[j].is_alive => j = i
                /\ Winners(rooms[r]) = <<rooms[r].players[i].user_id>>
                /\ \E k \in 1..Len(game_records) :
                      /\ game_records[k].room_id = r
                      /\ game_records[k].user_id = rooms[r].players[i].user_id
                      /\ game_records[k].result = "win"

\* a finished room is stored whose second seat is the winner
C29_Witness ==
    \E r \in DOMAIN rooms :
        /\ rooms[r].status = "finished"
        /\ ~rooms[r].players[1].is_alive
        /\ Winners(rooms[r]) = <<rooms[r].players[2].user_id>>

\* C30: start_game runs at most once for a room: start_room succeeds on a
\* waiting room only, and no step changes the order of the seats or the
\* bullet position of a room that is not waiting.
C30_StartedOnce ==
    [][/\ (result'.op = "start_room" /\ result'.success) =>
            /\ rooms[result'.room_id].status = "waiting"
            /\ rooms'[result'.room_id].status = "playing"
       /\ \A r \in (DOMAIN rooms) \cap (DOMAIN rooms') :
            rooms[r].status # "waiting" =>
                /\ Len(rooms'[r].players) = Len(rooms[r].players)
                /\ \A i \in 1..Len(rooms[r].players) :
                      rooms'[r].players[i].user_id = rooms[r].players[i].user_id
                /\ rooms'[r].game_data.bullet_position
                      = rooms[r].game_data.bullet_position]_vars

\* a second start_room by the creator has been refused on a room in play
\* whose seats were shuffled at the start
C30_Witness ==
    /\ result.op = "start_room" /\ ~result.success
    /\ result.message = "not_waiting"
    /\ \E r \in DOMAIN rooms :
          /\ rooms[r].status = "playing"
          /\ rooms[r].players[1].user_id # rooms[r].creator_id

\* C31: in every stored room that has been started, current_position and
\* bullet_position lie in 1..chamber_count, and current_position is 1 in the
\* room a successful start_room has just stored.
C31_PositionsInRange ==
    [][\A r \in DOMAIN rooms' :
        rooms'[r].status # "waiting" =>
            LET gd == rooms'[r].game_data
            IN  /\ gd.current_position \in 1..gd.chamber_count
                /\ gd.bullet_position \in 1..gd.chamber_count
                /\ ( /\ result'.op = "start_room" /\ result'.success
                     /\ result'.room_id = r )
                   => gd.current_position = 1]_vars

\* a room in play whose chamber has been taken to the last position, where
\* the bullet is
C31_Witness ==
    \E r \in DOMAIN rooms :
        /\ rooms[r].status = "playing"
        /\ rooms[r].game_data.current_position = ChamberCount
        /\ rooms[r].game_data.bullet_position = ChamberCount
        /\ result.op = "process_game_action" /\ result.success

\* C32: in every stored room in status playing the seat current_player_index
\* designates is alive.
C32_CurrentPlayerAlive ==
    \A r \in DOMAIN rooms :
        rooms[r].status = "playing" =>
            rooms[r].players[rooms[r].game_data.current_player_index + 1].is_alive

\* C33: a room in play is eventually finished, whatever its number of seats,
\* when the current player keeps submitting valid shoot actions.
C33_PlayingLeadsToFinished ==
    (1 \in DOMAIN rooms /\ rooms[1].status = "playing")
        ~> (1 \in DOMAIN rooms /\ rooms[1].status = "finished")

\* the coins the users of the set hold, a user not yet created holding the
\* coins it is created with
RECURSIVE CoinsHeld(_, _)
CoinsHeld(us, ids) ==
    IF ids = {} THEN 0
    ELSE LET u == CHOOSE u \in ids : TRUE
         IN  Balance(us, u) + CoinsHeld(us, ids \ {u})

\* the bets held by the waiting and playing rooms among ids
RECURSIVE CoinsStaked(_, _)
CoinsStaked(rs, ids) ==
    IF ids = {} THEN 0
    ELSE LET r == CHOOSE r \in ids : TRUE
         IN  (IF Active(rs[r].status)
              THEN rs[r].bet_amount * Len(rs[r].players) ELSE 0)
             + CoinsStaked(rs, ids \ {r})

\* the reward coins of the achievements recorded in awarded
RECURSIVE CoinsAwarded(_)
CoinsAwarded(awarded) ==
    IF awarded = {} THEN 0
    ELSE LET a == CHOOSE a \in awarded : TRUE
             i == CHOOSE i \in 1..Len(Achievements) : Achievements[i].id = a[2]
         IN  Achievements[i].reward_coins + CoinsAwarded(awarded \ {a})

\* C34: the room operations create no coins: the balances of the users plus
\* the bets staked in the waiting and playing rooms, the achievement rewards
\* left out, never exceed what the users started with.
C34_NoCoinsCreated ==
    CoinsHeld(users, UserIds) + CoinsStaked(rooms, DOMAIN rooms)
        - CoinsAwarded(user_achievements)
      <= InitialCoins * Cardinality(UserIds)

\* C35: transfer_coins never changes the sum of the users' balances, the
\* transfer of a user to itself included.
C35_TransferKeepsSum ==
    [][result'.op = "transfer_coins" =>
          CoinsHeld(users', LedgerUsers) = CoinsHeld(users, LedgerUsers)]_vars

\* C36: a create_room with a registered game type and a bet within the
\* bounds, by a caller who has the coins and is neither the creator of nor
\* seated in any waiting or playing room, succeeds, whatever the ids of the
\* users in the other rooms.
C36_FreeCallerCreates ==
    [][\A u \in UserIds :
        ( /\ CreateRoom(RouletteType, u, HighBet)
          /\ Balance(users, u) >= HighBet
          /\ \A r \in DOMAIN rooms :
                Active(rooms[r].status) =>
                    rooms[r].creator_id # u /\ ~Seated(rooms[r], u) )
        => result'.success]_vars

----------------------------------------------------------------------------
(* CheckInService and the check-in command. A last_check_in is kept as the *)
(* number of calendar days between its date and today's date, <<>> for     *)
(* None; the gaps from MaxGap on are one value.                            *)

\* the senders of the check-in specification
CheckInUsers == {"x", "z"}

\* CheckInService.base_reward_tiers: threshold, lowest and highest reward
BaseRewardTiers ==
    << <<1, 50, 200>>, <<7, 80, 250>>, <<14, 120, 300>>, <<30, 150, 400>>,
       <<60, 200, 500>>, <<90, 250, 600>>, <<180, 300, 800>>,
       <<365, 400, 1000>> >>

\* CheckInService.consecutive_bonuses: days and reward
ConsecutiveBonuses ==
    << <<7, 500>>, <<14, 1000>>, <<30, 3000>>, <<60, 8000>>, <<90, 20000>>,
       <<180, 50000>>, <<365, 100000>> >>

\* the check-ins the users of the check-in specification have made
CheckInsMade(us) ==
    LET made(u) == IF u \in DOMAIN us THEN us[u].total_check_ins ELSE 0
    IN  made("x") + made("z")

\* (today - last_check_in.date()).days of a user who has checked in
DaysSince(user) == user.last_check_in[1]

\* User.can_check_in that never refuses
UserCanCheckInAlways(user) == TRUE

\* User.can_check_in
UserCanCheckIn(user) ==
    IF user.last_check_in = <<>> THEN TRUE ELSE DaysSince(user) >= 1

\* a streak that grows whatever the gap
CalculateConsecutiveDaysNoReset(user) == user.check_in_count + 1

\* CheckInService._calculate_consecutive_days
CalculateConsecutiveDays(user) ==
    IF user.last_check_in = <<>> THEN 1
    ELSE IF DaysSince(user) = 1 THEN user.check_in_count + 1
    ELSE IF DaysSince(user) = 0 THEN user.check_in_count
    ELSE 1

\* the loop of _get_base_reward_range over the tiers i, i-1, .., 1
RECURSIVE RewardRangeFrom(_, _)
RewardRangeFrom(consecutive_days, i) ==
    IF i = 0 THEN <<50, 200>>
    ELSE IF consecutive_days >= BaseRewardTiers[i][1]
         THEN <<BaseRewardTiers[i][2], BaseRewardTiers[i][3]>>
         ELSE RewardRangeFrom(consecutive_days, i - 1)

\* CheckInService._get_base_reward_range
GetBaseRewardRange(consecutive_days) ==
    RewardRangeFrom(consecutive_days, Len(BaseRewardTiers))

\* the loop of _calculate_bonus_reward over the bonuses i..
RECURSIVE BonusFrom(_, _)
BonusFrom(consecutive_days, i) ==
    IF i > Len(ConsecutiveBonuses) THEN 0
    ELSE (IF /\ consecutive_days >= ConsecutiveBonuses[i][1]
             /\ consecutive_days = ConsecutiveBonuses[i][1]
          THEN ConsecutiveBonuses[i][2] ELSE 0)
         + BonusFrom(consecutive_days, i + 1)

\* CheckInService._calculate_bonus_reward
CalculateBonusReward(consecutive_days) == BonusFrom(consecutive_days, 1)

\* CheckInService._check_check_in_title, "" for None
CheckCheckInTitle(consecutive_days) ==
    IF consecutive_days >= 365 THEN "checkin_master"
    ELSE IF consecutive_days >= 180 THEN "unremitting"
    ELSE IF consecutive_days >= 90 THEN "persistent"
    ELSE IF consecutive_days >= 30 THEN "faithful"
    ELSE IF consecutive_days >= 7 THEN "daily_sign"
    ELSE ""

\* the user row CheckInService.check_in saves for a user who may check in,
\* with the base reward it drew
CheckedInUser(user, base_reward) ==
    LET consecutive_days == CalculateConsecutiveDays(user)
        total_reward == base_reward + CalculateBonusReward(consecutive_days)
        updated   == UserAddCoins(
                        [user EXCEPT !.last_check_in = <<0>>,
                                     !.check_in_count = consecutive_days,
                                     !.total_check_ins = @ + 1],
                        total_reward)
        new_title == CheckCheckInTitle(consecutive_days)
    IN  IF new_title # "" /\ updated.title # new_title
        THEN [updated EXCEPT !.title = new_title]
        ELSE updated

\* the check-in command: CheckInService.check_in and, for a sender who was
\* registered before, the achievement hook that follows it. pick chooses the
\* lowest or the highest base reward of the range random.randint draws from.
\* For a new sender the handler first yields its welcome reply; the rest of
\* it is CheckInAchievements.
CheckIn(user_id, pick) ==
    LET created == GetOrCreateUser(users, user_id, SenderName(user_id))
        user    == created[user_id]
    IN  IF ~UserCanCheckIn(user)
        THEN /\ users' = created
             /\ result' = Failure("check_in", "already_checked_in")
             /\ UNCHANGED <<rooms, free_ids, game_records, user_achievements>>
        ELSE LET consecutive_days == CalculateConsecutiveDays(user)
                 base_reward == GetBaseRewardRange(consecutive_days)[pick]
                 saved == [Tables EXCEPT !.users =
                              Put(created, user_id,
                                  CheckedInUser(user, base_reward))]
                 after == IF user_id \notin DOMAIN users THEN saved
                          ELSE CheckAndAwardAchievements(
                                   saved, user_id, "check_in",
                                   consecutive_days)
             IN  /\ CheckInsMade(users) < MaxCheckIns
                 /\ users' = after.users
                 /\ user_achievements' = after.user_achievements
                 /\ result' = [Success("check_in", 0, user_id) EXCEPT
                                 !.amount = base_reward
                                     + CalculateBonusReward(consecutive_days),
                                 !.hook_calls = after.hook_calls]
                 /\ UNCHANGED <<rooms, free_ids, game_records>>

\* the rest of the check-in command of a new sender, after its welcome
\* reply: the achievement hook with the streak of a first check-in
CheckInAchievements(user_id) ==
    /\ user_id \in DOMAIN users
    /\ users[user_id].total_check_ins >= 1
    /\ LET after == CheckAndAwardAchievements(Tables, user_id, "check_in", 1)
       IN  /\ users' = after.users
           /\ user_achievements' = after.user_achievements
           /\ result' = [Success("check_in", 0, user_id) EXCEPT
                            !.hook_calls = after.hook_calls]
    /\ UNCHANGED <<rooms, free_ids, game_records>>

\* the calendar date changes: every last check-in is one day further back
Midnight ==
    /\ users' = [u \in DOMAIN users |->
                    IF users[u].last_check_in = <<>> THEN users[u]
                    ELSE [users[u] EXCEPT !.last_check_in =
                            IF DaysSince(users[u]) < MaxGap
                            THEN <<DaysSince(users[u]) + 1>> ELSE @]]
    /\ UNCHANGED <<rooms, free_ids, game_records, user_achievements, result>>

NextCheckIn ==
    \/ \E u \in CheckInUsers, pick \in {1, 2} : CheckIn(u, pick)
    \/ \E u \in CheckInUsers : CheckInAchievements(u)
    \/ Midnight

SpecCheckIn == Init /\ [][NextCheckIn]_vars

----------------------------------------------------------------------------
(* The award specification: the achievement hook is called with any        *)
(* trigger, before and after the shots that settle a room of x and z.      *)

\* the trigger and the value of a call of the hook
HookRequests ==
    {<<"coins", 0>>, <<"coins", 1000>>, <<"check_in", 1>>, <<"level", 1>>,
     <<"game", [game_type |-> RouletteType, outcome |-> "win"]>>,
     <<"game", [game_type |-> RouletteType, outcome |-> "lose"]>>}

\* a room of x and z that was just started, the bullet in chamber 1 or 2
InitAward ==
    \E bullet \in {1, 2} :
        /\ rooms = Put(<<>>, 1,
              [StartedRoom(<<"x", "z">>, <<TRUE, TRUE>>, HighBet)
                  EXCEPT !.game_data = [@ EXCEPT !.bullet_position = bullet]])
        /\ users = [u \in {"x", "z"} |->
                        UserSpendCoins(NewUser(u, SenderName(u)), HighBet)]
        /\ free_ids = {}
        /\ game_records = <<>>
        /\ user_achievements = {}
        /\ result = Success("start_room", 1, "x")

\* AchievementService.check_and_award_achievements
CallCheckAndAward(user_id, trigger_type, value) ==
    LET after == CheckAndAwardAchievements(Tables, user_id, trigger_type, value)
    IN  /\ users' = after.users
        /\ user_achievements' = after.user_achievements
        /\ result' = [Success("check_and_award_achievements", 0, user_id)
                         EXCEPT !.hook_calls = after.hook_calls]
        /\ UNCHANGED <<rooms, free_ids, game_records>>

NextAward ==
    \/ \E u \in UserIds, q \in HookRequests : CallCheckAndAward(u, q[1], q[2])
    \/ \E r \in DOMAIN rooms, u \in UserIds :
            ProcessGameAction(r, u, "shoot", MinShots)

SpecAward == InitAward /\ [][NextAward]_vars

----------------------------------------------------------------------------
(* Claims about the check-in and the achievement hook. *)

\* C37: at most one check_in of a user succeeds on a calendar day: a
\* check_in by a user whose last check-in was on the same day fails and
\* leaves the user's balance, earned total, streak, total count and last
\* check-in as they were.
C37_SecondCheckInRefused ==
    [][\A u \in CheckInUsers, pick \in {1, 2} :
        ( /\ CheckIn(u, pick)
          /\ u \in DOMAIN users
          /\ users[u].last_check_in = <<0>> )
        => /\ ~result'.success
           /\ users'[u].coins = users[u].coins
           /\ users'[u].total_earned = users[u].total_earned
           /\ users'[u].check_in_count = users[u].check_in_count
           /\ users'[u].total_check_ins = users[u].total_check_ins
           /\ users'[u].last_check_in = users[u].last_check_in]_vars

\* a check_in was just refused while both users have checked in today, one
\* of them on a streak
C37_Witness ==
    /\ result.op = "check_in" /\ ~result.success
    /\ result.message = "already_checked_in"
    /\ \A u \in CheckInUsers :
          u \in DOMAIN users /\ users[u].last_check_in = <<0>>
    /\ \E u \in CheckInUsers : users[u].check_in_count >= 2

\* C38: a successful check_in sets the streak to the previous streak + 1
\* when the last check-in was exactly one day earlier, and to 1 when there
\* was none or it was two or more days earlier; total_check_ins grows by 1.
C38_StreakAfterCheckIn ==
    [][\A u \in CheckInUsers, pick \in {1, 2} :
        (CheckIn(u, pick) /\ result'.success)
        => LET before == IF u \in DOMAIN users THEN users[u]
                         ELSE NewUser(u, SenderName(u))
           IN  /\ users'[u].total_check_ins = before.total_check_ins + 1
               /\ before.last_check_in = <<1>>
                    => users'[u].check_in_count = before.check_in_count + 1
               /\ ( \/ before.last_check_in = <<>>
                    \/ /\ before.last_check_in # <<>>
                       /\ before.last_check_in[1] >= 2 )
                    => users'[u].check_in_count = 1]_vars

\* a check_in just succeeded; one user is on a streak of three days and the
\* other has started again at 1 after earlier check-ins
C38_Witness ==
    /\ result.op = "check_in" /\ result.success
    /\ \E u \in CheckInUsers, v \in CheckInUsers :
          /\ u \in DOMAIN users /\ v \in DOMAIN users
          /\ users[u].check_in_count = 3
          /\ users[v].check_in_count = 1 /\ users[v].total_check_ins >= 2
          /\ users[v].last_check_in = <<0>>

\* the coins_won of the game records of user u in recs[i..]
RECURSIVE CoinsWon(_, _, _)
CoinsWon(recs, u, i) ==
    IF i > Len(recs) THEN 0
    ELSE (IF recs[i].user_id = u THEN recs[i].coins_won ELSE 0)
         + CoinsWon(recs, u, i + 1)

\* C39: whatever calls of check_and_award_achievements were made, each
\* achievement is recorded for a user at most once and its coin reward was
\* credited at most once: what a user has earned is the prizes won plus one
\* reward for each achievement recorded for that user.
C39_RewardCreditedOnce ==
    \A u \in DOMAIN users :
        users[u].total_earned =
            CoinsWon(game_records, u, 1)
              + CoinsAwarded({a \in user_achievements : a[1] = u})

\* the hook was just called again with the coins trigger for a user who
\* holds achievements of an earlier coins call and of a settlement, and who
\* still has the coins first_hundred asks for
C39_Witness ==
    /\ result.op = "check_and_award_achievements"
    /\ \E u \in DOMAIN users :
          /\ Len(result.hook_calls) = 1
          /\ result.hook_calls[1].user_id = u
          /\ result.hook_calls[1].trigger_type = "coins"
          /\ result.hook_calls[1].value = 0
          /\ {<<u, "single_gain_1000">>, <<u, "first_hundred">>,
              <<u, "roulette_first_win">>} \subseteq user_achievements
          /\ users[u].coins >= 100

====
